---- MODULE Spec2Model ----
(***************************************************************************)
(* Model of src/app.py: a Flask backend whose three POST handlers          *)
(* (/narrate, /analyze_food, /get_recipe) relay a request to the vision    *)
(* API (Gemini) and, for /narrate, to the speech API (Azure TTS).          *)
(*                                                                         *)
(* Python strings that the code slices, searches or splits are modelled    *)
(* as sequences of one-character strings.  A handler is cut into one       *)
(* action per blocking point: the part up to its first outbound call, and  *)
(* the part that runs when an outbound call returns.                       *)
(***************************************************************************)
EXTENDS Integers, Sequences, FiniteSets, TLC

VARIABLES
    GEMINI_API_KEY,    \* TRUE iff the vision-API key is set (app.py:21-34)
    AZURE_SPEECH_KEY,  \* TRUE iff the speech-API key is set (app.py:22)
    pc,                \* "idle" | "vision_wait" | "tts_wait" | "done"
    route,             \* the POST route being served
    data,              \* request.json of the request being served
    calls,             \* outbound calls issued while serving this request
    upstream,          \* what those calls came back with, in order
    ai_text,           \* the text extracted from the vision-API reply
    response           \* the HTTP response of the request

vars == <<GEMINI_API_KEY, AZURE_SPEECH_KEY, pc, route, data, calls, upstream,
          ai_text, response>>

----------------------------------------------------------------------------
(* Bounds *)

\* longest vision-API reply text enumerated character by character
MaxLen == 4
\* longest run of prose characters appended to such a text
MaxPad == 200

\* ai_text[:200] and len(ai_text) > 200
TruncLimit == 200

----------------------------------------------------------------------------
(* Python string helpers *)

\* s.find(ch): 0-based index of the first occurrence, -1 when there is none
Find(s, ch) ==
    IF \E i \in 1..Len(s) : s[i] = ch
    THEN (CHOOSE i \in 1..Len(s) :
              s[i] = ch /\ \A j \in 1..(i - 1) : s[j] # ch) - 1
    ELSE -1

\* s.rfind(ch): 0-based index of the last occurrence, -1 when there is none
RFind(s, ch) ==
    IF \E i \in 1..Len(s) : s[i] = ch
    THEN (CHOOSE i \in 1..Len(s) :
              s[i] = ch /\ \A j \in (i + 1)..Len(s) : s[j] # ch) - 1
    ELSE -1

\* s[a:b] for 0 <= a, 0 <= b
Slice(s, a, b) == SubSeq(s, a + 1, IF b > Len(s) THEN Len(s) ELSE b)

\* s.split(',', 1): one part when s has no comma, otherwise two
SplitComma(s) ==
    LET k == Find(s, ",")
    IN  IF k < 0 THEN <<s>>
        ELSE <<Slice(s, 0, k), Slice(s, k + 1, Len(s))>>

\* html.escape of one character: & < > " ' become their entities
EscapeChar(h) ==
    CASE h = "&" -> <<"&", "a", "m", "p", ";">>
      [] h = "<" -> <<"&", "l", "t", ";">>
      [] h = ">" -> <<"&", "g", "t", ";">>
      [] h = "\"" -> <<"&", "q", "u", "o", "t", ";">>
      [] h = "'" -> <<"&", "#", "x", "2", "7", ";">>
      [] OTHER -> <<h>>

RECURSIVE HtmlEscape(_)
\* html.escape(s), character by character (halving keeps the recursion shallow)
HtmlEscape(s) ==
    IF s = <<>> THEN <<>>
    ELSE IF Len(s) = 1 THEN EscapeChar(s[1])
    ELSE LET m == Len(s) \div 2
         IN  HtmlEscape(SubSeq(s, 1, m)) \o HtmlEscape(SubSeq(s, m + 1, Len(s)))

----------------------------------------------------------------------------
(* json.loads on the token language of the replies.                        *)
(* "{" and "}" are themselves; "c" stands for a "commentary": "..." member *)
(* and "s" for a "suggestions": [...] member (separators included); a      *)
(* nested {...} stands for a member with an object value; any other        *)
(* character is prose, which no JSON object may contain.                   *)

CommentaryValue == <<"F", "r", "e", "s", "h">>
SuggestionsValue == <<[title |-> "Salad", description |-> "Toss greens."]>>

EmptyObject == <<>>

\* dict[key] = value (a later member with the same key wins)
Put(obj, key, value) == (key :> value) @@ obj

\* dict.get(key, default)
Get(obj, key, default) == IF key \in DOMAIN obj THEN obj[key] ELSE default

ParseFail == [ok |-> FALSE, next |-> 0, val |-> EmptyObject]

RECURSIVE ParseMembers(_, _, _)
\* the members of an object whose "{" has been read, up to its "}"
ParseMembers(s, i, acc) ==
    IF i > Len(s) THEN ParseFail
    ELSE CASE s[i] = "}" -> [ok |-> TRUE, next |-> i + 1, val |-> acc]
           [] s[i] = "c" ->
                ParseMembers(s, i + 1, Put(acc, "commentary", CommentaryValue))
           [] s[i] = "s" ->
                ParseMembers(s, i + 1, Put(acc, "suggestions", SuggestionsValue))
           [] s[i] = "{" ->
                LET r == ParseMembers(s, i + 1, EmptyObject)
                IN  IF r.ok
                    THEN ParseMembers(s, r.next, Put(acc, "extra", r.val))
                    ELSE ParseFail
           [] OTHER -> ParseFail

\* json.loads(s): ok is FALSE where json.loads raises JSONDecodeError
JsonLoads(s) ==
    IF s = <<>> \/ s[1] # "{" THEN ParseFail
    ELSE LET r == ParseMembers(s, 2, EmptyObject)
         IN  IF r.ok /\ r.next = Len(s) + 1 THEN r ELSE ParseFail

----------------------------------------------------------------------------
(* Inputs: request bodies and upstream replies *)

Alphabet == {"{", "}", "c", "s", "x"}

\* n characters of prose
Pad(n) == [i \in 1..n |-> "x"]

ShortTexts == UNION {[1..k -> Alphabet] : k \in 0..MaxLen}

PadLens == {0, MaxPad - 1, MaxPad}

\* the texts a vision-API reply may carry
Texts == {t \o Pad(n) : t \in ShortTexts, n \in PadLens}

\* data-URL strings: without a comma, with one, with two
Images == {<<"h", "d">>, <<"h", ",", "d">>, <<"h", ",", "d", ",", "d">>}

Suggestions == {"Tomato Soup", "Salad"}

\* request.json is None: the body is JSON null, or there is no JSON body and
\* Flask hands the handler None
NoBody == [kind |-> "none", fields |-> EmptyObject]

JsonBody(f) == [kind |-> "object", fields |-> f]

\* the JSON objects a request may carry
ObjectBodies ==
    {EmptyObject, "history" :> <<"x">>}
    \cup {"image" :> img : img \in Images}
    \cup {("image" :> <<"h", ",", "d">>) @@ ("persona" :> p) :
              p \in {[type |-> "str"], [type |-> "int"]}}
    \cup {"suggestion" :> sg : sg \in Suggestions}
    \cup {("suggestion" :> sg) @@ ("description" :> <<"x">>) : sg \in Suggestions}

Bodies == {NoBody} \cup {JsonBody(f) : f \in ObjectBodies}

\* the statuses a reply ends with: success, a client error, a server error
StatusCodes == {200, 404, 503}

\* the reason phrase an HTTPError's text carries
Reason(st) ==
    CASE st = 200 -> "OK" [] st = 404 -> "Not Found" [] OTHER -> "Service Unavailable"

\* requests.post raised: no reply at all
TransportFailures ==
    {[kind |-> "transport", status |-> 0, detail |-> d, body |-> "none"] :
         d \in {"ConnectionError", "Timeout"}}

\* a reply of the vision API: its status, and whether its body is not JSON,
\* JSON without candidates[0].content.parts[0].text, or JSON with that text
VisionReplies ==
    {[kind |-> "http", status |-> st, detail |-> Reason(st), body |-> b] :
         st \in StatusCodes, b \in {"notjson", "shapeless", "text"}}

\* a reply of the speech API: its status and its content bytes
SpeechReplies ==
    {[kind |-> "http", status |-> st, detail |-> Reason(st), body |-> "mp3"] :
         st \in StatusCodes}

----------------------------------------------------------------------------
(* Responses *)

NoResponse == [status |-> 0, body |-> EmptyObject]

\* jsonify(body), status
Json(status, body) == [status |-> status, body |-> body]

\* jsonify({"error": msg}), status
JsonError(status, msg) == Json(status, "error" :> msg)

\* an exception no handler catches: Flask answers 500 with its own page
Unhandled(exc) == [status |-> 500, body |-> "unhandled" :> exc]

\* `not data`
Falsy(d) == d.kind = "none" \/ DOMAIN d.fields = {}

\* Response.raise_for_status(): HTTPError for 4xx and 5xx
RaiseForStatus(status) == 400 <= status /\ status < 600

\* raise_for_status() left out
RequestFailedMut(r) == r.kind = "transport"

\* requests.post(...) raised, or raise_for_status() did
RequestFailed(r) == r.kind = "transport" \/ RaiseForStatus(r.status)

\* base64.b64encode(content).decode('ascii')
B64(content) == [b64 |-> content]

----------------------------------------------------------------------------
(* Pieces of the handlers *)

\* requests.post(GEMINI_API_URL, ...) with the image's data in the payload
VisionImageCall(encoded_data) == [api |-> "vision", payload |-> encoded_data]

\* requests.post(GEMINI_API_URL, ...) with the recipe prompt in the payload
VisionRecipeCall(suggestion) == [api |-> "vision", payload |-> suggestion]

\* requests.post(AZURE_SPEECH_URL, ...) with the SSML document as data
SpeechCall(safe_text) == [api |-> "speech", payload |-> safe_text]

\* narrate checking the vision-API key alone
NarrateConfigMissingMut == ~GEMINI_API_KEY

\* narrate: `if not GEMINI_API_KEY or not AZURE_SPEECH_KEY`
NarrateConfigMissing == ~GEMINI_API_KEY \/ ~AZURE_SPEECH_KEY

\* analyze_food: `if not GEMINI_API_KEY`
AnalyzeConfigMissing == ~GEMINI_API_KEY

\* get_recipe: `if not GEMINI_API_KEY`
RecipeConfigMissing == ~GEMINI_API_KEY

NarrateConfigError ==
    JsonError(500, "Server missing API configuration. Set GEMINI_API_KEY and AZURE_SPEECH_KEY.")

AnalyzeConfigError == JsonError(500, "Server missing GEMINI_API_KEY configuration.")

RecipeConfigError == JsonError(500, "Server missing API configuration.")

\* `if not data or 'image' not in data`
ImageMissing(d) == Falsy(d) \/ "image" \notin DOMAIN d.fields

\* the 400 left off the return: Flask answers 200
NoImageResponseMut == JsonError(200, "No image data received")

NoImageResponse == JsonError(400, "No image data received")

\* `if not data or 'suggestion' not in data`
SuggestionMissing(d) == Falsy(d) \/ "suggestion" \notin DOMAIN d.fields

NoSuggestionResponse == JsonError(400, "No recipe suggestion received")

\* `header, encoded_data = image_data_url.split(',', 1)` raises ValueError
\* when the split gives fewer than two parts
UnpackFails(image_data_url) == Len(SplitComma(image_data_url)) # 2

EncodedData(image_data_url) == SplitComma(image_data_url)[2]

\* `(data.get('persona') or 'attenborough').lower()` raises AttributeError
\* for a truthy value that is not a string
PersonaFails(d) ==
    "persona" \in DOMAIN d.fields /\ d.fields["persona"].type = "int"

\* find in place of rfind
JsonEndMut(text) == Find(text, "}") + 1

\* `json_end = ai_text.rfind('}') + 1`
JsonEnd(text) == RFind(text, "}") + 1

\* the try block around json.loads: the parsed object, or `fallback` on
\* ValueError("No JSON found in response") and on JSONDecodeError
ExtractJson(text, fallback) ==
    LET json_start == Find(text, "{")
        json_end == JsonEnd(text)
    IN  IF json_start >= 0 /\ json_end > json_start
        THEN LET r == JsonLoads(Slice(text, json_start, json_end))
             IN  IF r.ok THEN r.val ELSE fallback
        ELSE fallback

\* the reply text passed on whole
FallbackCommentaryMut(text) == text

\* `ai_text[:200] + "..." if len(ai_text) > 200 else ai_text`
FallbackCommentary(text) ==
    IF Len(text) > TruncLimit
    THEN Slice(text, 0, TruncLimit) \o <<".", ".", ".">>
    ELSE text

GenericSuggestion ==
    [title |-> "Creative Dish",
     description |-> "Try something creative with your ingredients!"]

\* a fallback without its suggestion
FoodFallbackMut(text) ==
    [commentary |-> FallbackCommentary(text), suggestions |-> <<>>]

\* analyze_food's fallback ai_json
FoodFallback(text) ==
    [commentary |-> FallbackCommentary(text), suggestions |-> <<GenericSuggestion>>]

\* the object analyze_food returns for the reply text
FoodResult(text) ==
    LET ai_json == ExtractJson(text, FoodFallback(text))
    IN  [commentary |-> Get(ai_json, "commentary", <<>>),
         suggestions |-> Get(ai_json, "suggestions", <<>>)]

\* a fallback with a title of its own
RecipeFallbackMut(suggestion) ==
    [title |-> "Recipe",
     ingredients |-> <<"Ingredients will vary based on what you have available">>,
     instructions |-> <<"Follow basic cooking principles", "Adjust seasoning to taste">>,
     prepTime |-> "Varies",
     cookTime |-> "Varies",
     tips |-> "Use fresh ingredients when possible and taste as you go!"]

\* get_recipe's fallback recipe_json
RecipeFallback(suggestion) ==
    [title |-> suggestion,
     ingredients |-> <<"Ingredients will vary based on what you have available">>,
     instructions |-> <<"Follow basic cooking principles", "Adjust seasoning to taste">>,
     prepTime |-> "Varies",
     cookTime |-> "Varies",
     tips |-> "Use fresh ingredients when possible and taste as you go!"]

\* str(e) sent to the caller
UpstreamErrorMut(msg, reply) == JsonError(500, reply.detail)

\* `except requests.exceptions.RequestException` of each call: the reply
\* that failed is logged, the caller gets the message
UpstreamError(msg, reply) == JsonError(500, msg)

\* the narration text sent along with the error
TtsErrorResponseMut(narration_text, reply) ==
    Json(500, [error |-> "Failed to generate audio from Azure", text |-> narration_text])

\* narrate: the speech call failed after the narration text was obtained
TtsErrorResponse(narration_text, reply) ==
    UpstreamError("Failed to generate audio from Azure", reply)

\* narrate: `jsonify({"text": narration_text, "audio": audio_b64})`
NarrateResult(narration_text, content) ==
    Json(200, [text |-> narration_text, audio |-> B64(content)])

----------------------------------------------------------------------------
(* The server *)

Init ==
    /\ GEMINI_API_KEY \in BOOLEAN
    /\ AZURE_SPEECH_KEY \in BOOLEAN
    /\ pc = "idle"
    /\ route = "none"
    /\ data = NoBody
    /\ calls = <<>>
    /\ upstream = <<>>
    /\ ai_text = <<>>
    /\ response = NoResponse

\* the handler returns `resp` without an outbound call
Return(resp) ==
    /\ pc' = "done"
    /\ response' = resp
    /\ UNCHANGED <<calls, upstream, ai_text>>

\* the handler blocks in requests.post
Post(call, at) ==
    /\ pc' = at
    /\ calls' = Append(calls, call)
    /\ UNCHANGED <<upstream, response>>

\* the blocked requests.post came back with `reply`; the handler ends
ReturnAfter(reply, resp) ==
    /\ pc' = "done"
    /\ upstream' = Append(upstream, reply)
    /\ response' = resp
    /\ UNCHANGED calls

\* POST /narrate up to the vision-API call
Narrate(d) ==
    /\ pc = "idle"
    /\ route' = "narrate"
    /\ data' = d
    /\ UNCHANGED <<GEMINI_API_KEY, AZURE_SPEECH_KEY>>
    /\ IF NarrateConfigMissing THEN Return(NarrateConfigError)
       ELSE IF ImageMissing(d) THEN Return(NoImageResponse)
       ELSE IF PersonaFails(d) THEN Return(Unhandled("AttributeError"))
       ELSE IF UnpackFails(d.fields["image"]) THEN Return(Unhandled("ValueError"))
       ELSE /\ Post(VisionImageCall(EncodedData(d.fields["image"])), "vision_wait")
            /\ UNCHANGED ai_text

\* POST /narrate from the vision-API reply up to the speech-API call.
\* `caught`: requests raises its own JSONDecodeError, a RequestException, for
\* a body that is not JSON (older releases raise a plain ValueError)
NarrateVisionReturn(reply, text, caught) ==
    /\ pc = "vision_wait"
    /\ route = "narrate"
    /\ UNCHANGED <<GEMINI_API_KEY, AZURE_SPEECH_KEY, route, data>>
    /\ IF RequestFailed(reply) \/ (reply.body = "notjson" /\ caught)
       THEN /\ ReturnAfter(reply, UpstreamError("Failed to get AI response", reply))
            /\ UNCHANGED ai_text
       ELSE IF reply.body = "notjson"
       THEN /\ ReturnAfter(reply, Unhandled("JSONDecodeError"))
            /\ UNCHANGED ai_text
       ELSE IF reply.body = "shapeless"
       THEN /\ ReturnAfter(reply, Unhandled("KeyError"))
            /\ UNCHANGED ai_text
       ELSE /\ ai_text' = text
            /\ upstream' = Append(upstream, reply)
            /\ pc' = "tts_wait"
            /\ calls' = Append(calls, SpeechCall(HtmlEscape(text)))
            /\ UNCHANGED response

\* POST /narrate from the speech-API reply to the response
NarrateSpeechReturn(reply) ==
    /\ pc = "tts_wait"
    /\ route = "narrate"
    /\ UNCHANGED <<GEMINI_API_KEY, AZURE_SPEECH_KEY, route, data, ai_text>>
    /\ IF RequestFailed(reply)
       THEN ReturnAfter(reply, TtsErrorResponse(ai_text, reply))
       ELSE ReturnAfter(reply, NarrateResult(ai_text, reply.body))

\* POST /analyze_food up to the vision-API call
AnalyzeFood(d) ==
    /\ pc = "idle"
    /\ route' = "analyze_food"
    /\ data' = d
    /\ UNCHANGED <<GEMINI_API_KEY, AZURE_SPEECH_KEY>>
    /\ IF AnalyzeConfigMissing THEN Return(AnalyzeConfigError)
       ELSE IF ImageMissing(d) THEN Return(NoImageResponse)
       ELSE IF UnpackFails(d.fields["image"]) THEN Return(Unhandled("ValueError"))
       ELSE /\ Post(VisionImageCall(EncodedData(d.fields["image"])), "vision_wait")
            /\ UNCHANGED ai_text

\* POST /analyze_food from the vision-API reply to the response
AnalyzeVisionReturn(reply, text, caught) ==
    /\ pc = "vision_wait"
    /\ route = "analyze_food"
    /\ UNCHANGED <<GEMINI_API_KEY, AZURE_SPEECH_KEY, route, data>>
    /\ IF RequestFailed(reply) \/ (reply.body = "notjson" /\ caught)
       THEN /\ ReturnAfter(reply, UpstreamError("Failed to analyze image", reply))
            /\ UNCHANGED ai_text
       ELSE IF reply.body \in {"notjson", "shapeless"}
       THEN /\ ReturnAfter(reply, JsonError(500, "Internal server error"))
            /\ UNCHANGED ai_text
       ELSE /\ ai_text' = text
            /\ ReturnAfter(reply, Json(200, FoodResult(text)))

\* POST /get_recipe up to the vision-API call
GetRecipe(d) ==
    /\ pc = "idle"
    /\ route' = "get_recipe"
    /\ data' = d
    /\ UNCHANGED <<GEMINI_API_KEY, AZURE_SPEECH_KEY>>
    /\ IF RecipeConfigMissing THEN Return(RecipeConfigError)
       ELSE IF SuggestionMissing(d) THEN Return(NoSuggestionResponse)
       ELSE /\ Post(VisionRecipeCall(d.fields["suggestion"]), "vision_wait")
            /\ UNCHANGED ai_text

\* POST /get_recipe from the vision-API reply to the response
RecipeVisionReturn(reply, text, caught) ==
    /\ pc = "vision_wait"
    /\ route = "get_recipe"
    /\ UNCHANGED <<GEMINI_API_KEY, AZURE_SPEECH_KEY, route, data>>
    /\ IF RequestFailed(reply) \/ (reply.body = "notjson" /\ caught)
       THEN /\ ReturnAfter(reply, UpstreamError("Failed to generate recipe", reply))
            /\ UNCHANGED ai_text
       ELSE IF reply.body = "notjson"
       THEN /\ ReturnAfter(reply, Unhandled("JSONDecodeError"))
            /\ UNCHANGED ai_text
       ELSE IF reply.body = "shapeless"
       THEN /\ ReturnAfter(reply, Unhandled("KeyError"))
            /\ UNCHANGED ai_text
       ELSE /\ ai_text' = text
            /\ ReturnAfter(reply,
                   Json(200, ExtractJson(text, RecipeFallback(data.fields["suggestion"]))))

\* the response has been sent; the worker takes the next request.  Nothing
\* of a request outlives it but the configuration
NextRequest ==
    /\ pc = "done"
    /\ pc' = "idle"
    /\ route' = "none"
    /\ data' = NoBody
    /\ calls' = <<>>
    /\ upstream' = <<>>
    /\ ai_text' = <<>>
    /\ response' = NoResponse
    /\ UNCHANGED <<GEMINI_API_KEY, AZURE_SPEECH_KEY>>

\* what a reply of the vision API can be: the text matters only where the
\* body carries one, `caught` only where the body is not JSON
VisionOutcomes ==
    {<<reply, text, caught>> :
         reply \in {r \in VisionReplies : r.body = "text"},
         text \in Texts, caught \in {FALSE}}
    \cup {<<reply, <<>>, caught>> :
         reply \in {r \in VisionReplies : r.body = "notjson"}, caught \in BOOLEAN}
    \cup {<<reply, <<>>, FALSE>> :
         reply \in TransportFailures \cup {r \in VisionReplies : r.body = "shapeless"}}

Next ==
    \/ \E d \in Bodies : Narrate(d)
    \/ /\ pc = "vision_wait" /\ route = "narrate"
       /\ \E o \in VisionOutcomes : NarrateVisionReturn(o[1], o[2], o[3])
    \/ \E reply \in TransportFailures \cup SpeechReplies : NarrateSpeechReturn(reply)
    \/ \E d \in Bodies : AnalyzeFood(d)
    \/ /\ pc = "vision_wait" /\ route = "analyze_food"
       /\ \E o \in VisionOutcomes : AnalyzeVisionReturn(o[1], o[2], o[3])
    \/ \E d \in Bodies : GetRecipe(d)
    \/ /\ pc = "vision_wait" /\ route = "get_recipe"
       /\ \E o \in VisionOutcomes : RecipeVisionReturn(o[1], o[2], o[3])
    \/ NextRequest

Spec == Init /\ [][Next]_vars

----------------------------------------------------------------------------
(* Vocabulary of the properties *)

Done == pc = "done"

HasError(resp) == "error" \in DOMAIN resp.body

ConfigMessages ==
    {"Server missing API configuration. Set GEMINI_API_KEY and AZURE_SPEECH_KEY.",
     "Server missing GEMINI_API_KEY configuration.",
     "Server missing API configuration."}

IsConfigError(resp) ==
    resp.status = 500 /\ HasError(resp) /\ resp.body["error"] \in ConfigMessages

\* a 2xx reply
Succeeded(reply) == reply.kind = "http" /\ reply.status \in 200..299

\* the vision API answered 2xx with a text at candidates[0].content.parts[0]
VisionGaveText ==
    Len(upstream) >= 1 /\ Succeeded(upstream[1]) /\ upstream[1].body = "text"

NoImageField == data.kind = "none" \/ "image" \notin DOMAIN data.fields

MalformedImage ==
    /\ data.kind = "object"
    /\ "image" \in DOMAIN data.fields
    /\ \A i \in 1..Len(data.fields["image"]) : data.fields["image"][i] # ","

Opens(t) == {i \in 1..Len(t) : t[i] = "{"}

Closes(t) == {i \in 1..Len(t) : t[i] = "}"}

\* the places <<i, j>> where t holds a valid JSON object
Embedded(t) ==
    {p \in Opens(t) \X Closes(t) : p[1] < p[2] /\ JsonLoads(SubSeq(t, p[1], p[2])).ok}

\* no "{", or no "}" after the first "{", or the span from the first "{" to
\* the last "}" is not valid JSON
Unparsable(t) ==
    \/ Opens(t) = {}
    \/ \A j \in Closes(t), i \in Opens(t) : j < i
    \/ \E i \in Opens(t), j \in Closes(t) :
           /\ \A k \in Opens(t) : i <= k
           /\ \A k \in Closes(t) : k <= j
           /\ i < j
           /\ ~JsonLoads(SubSeq(t, i, j)).ok

\* /analyze_food answered 200 with the commentary and suggestions of obj
ReturnsObject(obj) ==
    /\ response.status = 200
    /\ DOMAIN response.body = {"commentary", "suggestions"}
    /\ response.body["commentary"] = Get(obj, "commentary", <<>>)
    /\ response.body["suggestions"] = Get(obj, "suggestions", <<>>)

IsPrefix(a, b) == Len(a) <= Len(b) /\ \A i \in 1..Len(a) : a[i] = b[i]

----------------------------------------------------------------------------
(* C1 *)

\* C1 as stated: while either API key is absent, every POST to /narrate,
\* /analyze_food or /get_recipe makes no outbound call and ends with HTTP
\* 500 and a configuration message.
C1_AsStated ==
    (route # "none" /\ (~GEMINI_API_KEY \/ ~AZURE_SPEECH_KEY)) =>
        /\ calls = <<>>
        /\ Done => IsConfigError(response)

\* C1 (amended): a POST to /narrate while either key is absent, and a POST
\* to /analyze_food or /get_recipe while the vision-API key is absent, makes
\* no outbound call and ends with HTTP 500 and a configuration message.
C1_ConfigError ==
    (route # "none" /\ (~GEMINI_API_KEY \/ (route = "narrate" /\ ~AZURE_SPEECH_KEY))) =>
        /\ calls = <<>>
        /\ pc \in {"idle", "done"}
        /\ Done => IsConfigError(response)

C1_Witness ==
    /\ Done /\ route = "narrate"
    /\ GEMINI_API_KEY /\ ~AZURE_SPEECH_KEY
    /\ data.kind = "object" /\ "image" \in DOMAIN data.fields
    /\ IsConfigError(response) /\ calls = <<>>

----------------------------------------------------------------------------
(* C2 *)

----------------------------------------------------------------------------
(* C3 *)

\* C3: /narrate issues the speech-API call only after the vision-API call
\* has returned 2xx with an extractable text; when the vision call fails in
\* transport, by status or by shape, no speech call is issued.
C3_SpeechAfterVision ==
    \A i \in 1..Len(calls) :
        calls[i].api = "speech" =>
            /\ route = "narrate"
            /\ i = 2
            /\ calls[1].api = "vision"
            /\ VisionGaveText

C3_Witness ==
    /\ Done /\ route = "narrate"
    /\ Len(upstream) = 1 /\ upstream[1].status = 503
    /\ Len(calls) = 1 /\ calls[1].api = "vision"

----------------------------------------------------------------------------
(* C4 *)

\* C4: with the server configured, a POST to /narrate or /analyze_food whose
\* `image` is a string without a comma ends with HTTP 400 and an `error`
\* field, and makes no outbound call.
C4_MalformedImage ==
    (/\ Done /\ route \in {"narrate", "analyze_food"}
     /\ GEMINI_API_KEY /\ AZURE_SPEECH_KEY
     /\ MalformedImage) =>
        (response.status = 400 /\ HasError(response) /\ calls = <<>>)

----------------------------------------------------------------------------
(* C5 *)

FoodFallbackTaken ==
    Done /\ route = "analyze_food" /\ VisionGaveText /\ Unparsable(ai_text)

\* C5: when the vision API answers 2xx with a text that has no "{", no "}"
\* after it, or no valid JSON between the first "{" and the last "}",
\* /analyze_food answers 200 with a commentary taken from the text and
\* exactly one suggestion, the generic one.
C5_FoodFallback ==
    FoodFallbackTaken =>
        /\ response.status = 200
        /\ DOMAIN response.body = {"commentary", "suggestions"}
        /\ IF Len(ai_text) <= TruncLimit
           THEN response.body["commentary"] = ai_text
           ELSE IsPrefix(SubSeq(ai_text, 1, TruncLimit), response.body["commentary"])
        /\ Len(response.body["suggestions"]) = 1
        /\ response.body["suggestions"][1].title = "Creative Dish"

C5_Witness ==
    /\ FoodFallbackTaken
    /\ Opens(ai_text) # {} /\ Closes(ai_text) # {}
    /\ \E i \in Opens(ai_text), j \in Closes(ai_text) : i < j
    /\ response.status = 200
    /\ Len(response.body["suggestions"]) = 1

----------------------------------------------------------------------------
(* C6 *)

\* C6 as stated: the fallback commentary of /analyze_food is at most 200
\* characters long.
C6_AsStated == FoodFallbackTaken => Len(response.body["commentary"]) <= TruncLimit

\* C6 (amended): the fallback commentary of /analyze_food is at most 203
\* characters long: the reply text itself when that has at most 200
\* characters, otherwise its first 200 characters followed by "...".
C6_CommentaryLength ==
    FoodFallbackTaken =>
        /\ Len(response.body["commentary"]) <= TruncLimit + 3
        /\ Len(ai_text) > TruncLimit =>
               response.body["commentary"] =
                   SubSeq(ai_text, 1, TruncLimit) \o <<".", ".", ".">>

C6_Witness ==
    /\ FoodFallbackTaken
    /\ Len(ai_text) > TruncLimit
    /\ Len(response.body["commentary"]) = TruncLimit + 3

----------------------------------------------------------------------------
(* C7 *)

RecipeFallbackTaken ==
    Done /\ route = "get_recipe" /\ VisionGaveText /\ Unparsable(ai_text)

\* C7: when the vision API answers 2xx with an unparsable text, /get_recipe
\* answers 200 with a recipe whose title is the request's `suggestion` and
\* whose ingredients and instructions are not empty.
C7_RecipeFallback ==
    RecipeFallbackTaken =>
        /\ response.status = 200
        /\ {"title", "ingredients", "instructions"} \subseteq DOMAIN response.body
        /\ response.body["title"] = data.fields["suggestion"]
        /\ Len(response.body["ingredients"]) > 0
        /\ Len(response.body["instructions"]) > 0

C7_Witness ==
    /\ RecipeFallbackTaken
    /\ data.fields["suggestion"] = "Tomato Soup"
    /\ response.status = 200
    /\ response.body["title"] = "Tomato Soup"

----------------------------------------------------------------------------
(* C8 *)

FoodAnswered == Done /\ route = "analyze_food" /\ VisionGaveText

\* C8 as stated: whatever surrounds a valid JSON object in the reply text,
\* /analyze_food returns that object's commentary and suggestions.
C8_AsStated ==
    FoodAnswered =>
        \A p \in Embedded(ai_text) :
            ReturnsObject(JsonLoads(SubSeq(ai_text, p[1], p[2])).val)

\* C8 (amended): when the reply text is a valid JSON object surrounded by
\* prose that has no "{" before the object and no "}" after it,
\* /analyze_food returns that object's commentary and suggestions, an absent
\* one defaulting to empty.
C8_EmbeddedObject ==
    FoodAnswered =>
        \A p \in Embedded(ai_text) :
            (/\ \A i \in Opens(ai_text) : p[1] <= i
             /\ \A j \in Closes(ai_text) : j <= p[2]) =>
                ReturnsObject(JsonLoads(SubSeq(ai_text, p[1], p[2])).val)

C8_Witness ==
    /\ FoodAnswered
    /\ \E p \in Embedded(ai_text) :
           /\ 1 < p[1] /\ p[2] < Len(ai_text)
           /\ \A i \in Opens(ai_text) : p[1] <= i
           /\ \A j \in Closes(ai_text) : j <= p[2]
    /\ response.body["commentary"] = CommentaryValue
    /\ response.body["suggestions"] = <<>>

----------------------------------------------------------------------------
(* C9 *)

\* C9: /narrate returns the narration text and the audio together, after
\* both upstream calls succeeded, or an error response with neither; before
\* the handler ends nothing is returned.
C9_NoPartialResult ==
    route = "narrate" =>
        IF Done
        THEN \/ /\ response.status = 200
                /\ DOMAIN response.body = {"text", "audio"}
                /\ Len(upstream) = 2
                /\ Succeeded(upstream[1]) /\ Succeeded(upstream[2])
             \/ /\ response.status \in {400, 500}
                /\ "text" \notin DOMAIN response.body
                /\ "audio" \notin DOMAIN response.body
        ELSE response = NoResponse

C9_Witness ==
    /\ Done /\ route = "narrate"
    /\ Len(upstream) = 2 /\ VisionGaveText /\ ~Succeeded(upstream[2])
    /\ HasError(response)
    /\ "text" \notin DOMAIN response.body

----------------------------------------------------------------------------
(* C10 *)

\* the outbound call failed in transport or came back with a 4xx or 5xx
UpstreamFailed(reply) == reply.kind = "transport" \/ reply.status \in 400..599

\* the message of each route for its first and its second outbound call
GenericMessage(r, i) ==
    CASE r = "narrate" /\ i = 1 -> "Failed to get AI response"
      [] r = "narrate" /\ i = 2 -> "Failed to generate audio from Azure"
      [] r = "analyze_food" -> "Failed to analyze image"
      [] OTHER -> "Failed to generate recipe"

\* C10: an outbound call that fails in transport or by status ends the
\* request at once, with no further outbound call, with HTTP 500 and an
\* `error` message fixed by the route and the call, whatever the failure's
\* status code or exception text.
C10_GenericUpstreamError ==
    \A i \in 1..Len(upstream) :
        UpstreamFailed(upstream[i]) =>
            /\ Done
            /\ i = Len(upstream)
            /\ Len(calls) = i
            /\ response = JsonError(500, GenericMessage(route, i))

C10_Witness ==
    /\ Done /\ route = "narrate"
    /\ Len(upstream) = 2
    /\ upstream[2].kind = "transport" /\ upstream[2].detail = "Timeout"
    /\ response = JsonError(500, "Failed to generate audio from Azure")

====
